---------------------------- MODULE Spec2Model ----------------------------
(***************************************************************************)
(* A model of CMM.py, the Streamlit cybersecurity maturity self-assessment *)
(* tool.  Streamlit re-executes the whole script, top to bottom, on every  *)
(* widget interaction of a browser session; st.session_state is the        *)
(* per-session store that survives from one execution to the next.  Each   *)
(* user event is therefore one action: the widget change followed by the   *)
(* complete script run it triggers.  The only part of a run that touches   *)
(* state outside the session is report generation, which writes and reads  *)
(* summary.png / heatmap.png in the server's working directory; that part  *)
(* is split at its file operations so that runs of two sessions (Streamlit *)
(* runs each session's script on its own thread) can interleave there.     *)
(*                                                                         *)
(* Numbers: an average is kept as the exact fraction sum/len (a record     *)
(* [num, den]); "{:.2f}" is modelled by Fmt2, the fraction rounded to the  *)
(* nearest hundredth and held as a number of hundredths (150 for "1.50").  *)
(* With fewer than 8 scores per average no fraction lies on a rounding tie,*)
(* so the rounding mode of the float formatting does not matter.           *)
(***************************************************************************)
EXTENDS Integers, Sequences, FiniteSets, TLC

VARIABLES sector, section, widget, session_state, pc, pdf, view, files, nratings

vars == <<sector, section, widget, session_state, pc, pdf, view, files, nratings>>

(***************************************************************************)
(* Bounds of the model.                                                    *)
(***************************************************************************)
\* how many of the 4 domains and of the 4 criteria of each domain the model
\* keeps (always the first ones of the catalogue)
NumDomains == 2
NumCriteria == 2
\* how many rating changes (selectbox interactions on the Assessment page)
\* are made in one behaviour, all sessions together
MaxRatings == 1

Sessions == {"A", "B"}

(***************************************************************************)
(* Static data (lines 17-74).                                              *)
(***************************************************************************)
cmm_rubric ==
    (0 :> "Non-existent: No recognized practices.") @@
    (1 :> "Ad hoc: Processes are informal and undocumented.") @@
    (2 :> "Repeatable: Some practices are established but inconsistently applied.") @@
    (3 :> "Defined: Practices are documented and communicated.") @@
    (4 :> "Managed: Practices are monitored, measured and improved.") @@
    (5 :> "Optimized: Best practices are followed and continuously improved.")

\* options=list(cmm_rubric.keys()) of the rating selectbox, as a sequence
options_wide == <<0, 1, 2, 3, 4, 5, 6>>

options == <<0, 1, 2, 3, 4, 5>>

nis2_catalog ==
    ("Governance" :> <<
        "Cybersecurity strategy aligned with organizational goals.",
        "Cyber roles and responsibilities assigned and reviewed.",
        "Executive oversight of cybersecurity established.",
        "Cybersecurity integrated into governance and compliance.">>) @@
    ("Risk Management" :> <<
        "Risk management framework implemented and maintained.",
        "Cyber risk assessments conducted and updated periodically.",
        "Third-party risks integrated into risk management.",
        "Risk treatment plans reviewed and acted upon.">>) @@
    ("Operational Security" :> <<
        "IT assets inventoried and classified.",
        "Access control policies enforced and reviewed.",
        "System vulnerabilities are patched promptly.",
        "Network segmentation and monitoring deployed.">>) @@
    ("Incident Management" :> <<
        "Incident response plan documented, tested, and updated.",
        "Reporting channels and detection tools established.",
        "Coordination with national CSIRTs or sector CSIRTs ensured.",
        "Post-incident review and continuous improvement cycle in place.">>)

\* the insertion order of the dict literal, which is the iteration order of
\* every dict built from it
domain_order ==
    SubSeq(<<"Governance", "Risk Management", "Operational Security",
             "Incident Management">>, 1, NumDomains)

DomainNames == {domain_order[i] : i \in 1..Len(domain_order)}

nis2_domains ==
    [d \in DomainNames |-> SubSeq(nis2_catalog[d], 1, NumCriteria)]

\* every sector is given the same nis2_domains (line 74), so the sectors are
\* interchangeable; the model keeps the first two of the eleven
nis2_sectors == <<"Energy", "Transport">>

SectorNames == {nis2_sectors[i] : i \in 1..Len(nis2_sectors)}

sector_domains == [sec \in SectorNames |-> nis2_domains]

sections == <<"Assessment", "Summary", "Download Report">>

(***************************************************************************)
(* Recommendation policy (lines 28-38).  score is a fraction [num, den].   *)
(***************************************************************************)
Less(score, n) == score.num < n * score.den

LessEq(score, n) == score.num <= n * score.den

recommendation_le(score) ==
    IF LessEq(score, 2) THEN "High priority for corrective action. Establish basic controls."
    ELSE IF LessEq(score, 3) THEN "Moderate risk. Document and formalize processes."
    ELSE IF LessEq(score, 4) THEN "Develop structured monitoring and review."
    ELSE IF LessEq(score, 5) THEN "Consider optimization and automation."
    ELSE "Maintain and share best practices."

recommendation(score) ==
    IF Less(score, 2) THEN "High priority for corrective action. Establish basic controls."
    ELSE IF Less(score, 3) THEN "Moderate risk. Document and formalize processes."
    ELSE IF Less(score, 4) THEN "Develop structured monitoring and review."
    ELSE IF Less(score, 5) THEN "Consider optimization and automation."
    ELSE "Maintain and share best practices."

(***************************************************************************)
(* Arithmetic of the Summary page (lines 102-105, 166).                    *)
(***************************************************************************)
RECURSIVE sum(_)
sum(s) == IF s = <<>> THEN 0 ELSE Head(s) + sum(Tail(s))

\* sum(s)/len(s); the caller raises ZeroDivisionError when len(s) = 0
Mean(s) == [num |-> sum(s), den |-> Len(s)]

\* f"{x:.2f}", in hundredths
Fmt2(x) == (200 * x.num + x.den) \div (2 * x.den)

\* the keys of a dict in iteration order
Keys(dict) == SelectSeq(domain_order, LAMBDA d : d \in DOMAIN dict)

RECURSIVE Concat(_, _)
Concat(dict, ks) ==
    IF ks = <<>> THEN <<>> ELSE dict[Head(ks)] \o Concat(dict, Tail(ks))

\* [s for scores in st.session_state.scores.values() for s in scores]
all_scores(scores) == Concat(scores, Keys(scores))

avg_score_unguarded(scores) == Mean(all_scores(scores))

\* sum(all_scores)/len(all_scores) if all_scores else 0
avg_score(scores) ==
    IF all_scores(scores) # <<>> THEN Mean(all_scores(scores))
    ELSE [num |-> 0, den |-> 1]

\* {d: sum(s)/len(s) for d, s in st.session_state.scores.items()}, as the
\* rows (Domain, Avg Score) in dict order
domain_averages(scores) ==
    [i \in 1..Len(Keys(scores)) |->
        [Domain |-> Keys(scores)[i], Avg |-> Mean(scores[Keys(scores)[i]])]]

\* the comprehension of line 102 divides by len(s) for every domain
DivisionByZero(scores) == \E d \in DOMAIN scores : Len(scores[d]) = 0

\* the recommendations DataFrame (lines 123-127)
recs(averages) ==
    [i \in 1..Len(averages) |->
        [Domain |-> averages[i].Domain,
         Avg |-> averages[i].Avg,
         Recommendation |-> recommendation(averages[i].Avg)]]

(***************************************************************************)
(* Values rendered by a run and values kept in st.session_state.           *)
(***************************************************************************)
\* a dict with no keys
EmptyDict == [d \in {} |-> <<>>]

\* the state of the rating selectboxes before any interaction: index 0 of
\* options, for every key f"{domain}-{item}"
default_widget ==
    [d \in DomainNames |-> [i \in 1..Len(nis2_domains[d]) |-> options[1]]]

\* fig.savefig(buf, format='png'): the image is determined by what the
\* figure draws
savefig(fig) == [format |-> "png", drawn |-> fig]

\* FPDF() before any chart page
NewPdf == [images |-> <<>>, lines |-> <<>>]

\* what the browser shows after a run
Screen(page, result) ==
    [page |-> page, result |-> result, metric |-> -1, charts |-> <<>>,
     dataframe |-> <<>>, download |-> NewPdf]

NoScreen == Screen("", "")

Idle == [at |-> "idle", i |-> 0]

\* the (figure, file name) pairs of the loop of line 152
chart_loop ==
    <<[fig |-> "fig_summary", name |-> "summary.png"],
      [fig |-> "fig_heatmap", name |-> "heatmap.png"]>>

\* st.session_state.<key> = value, in the session's own store
SetKey(ss, key, value) == (key :> value) @@ ss

\* st.session_state is one store per session
Store_process_wide(state, s, ss) == [t \in Sessions |-> ss]

Store(state, s, ss) == [state EXCEPT ![s] = ss]

\* lines 82-83
InitScores(ss) ==
    IF "scores" \notin DOMAIN ss THEN SetKey(ss, "scores", EmptyDict) ELSE ss

\* lines 90-97: one selectbox value appended per criterion
domain_scores_none(items, levels) == <<>>

domain_scores(items, levels) == [i \in 1..Len(items) |-> levels[i]]

\* lines 88-98 with selectbox keys that name the sector, so that another
\* sector reads fresh selectboxes
AssessmentScores_sector_keyed(scores, sec, wdg) ==
    [d \in DOMAIN scores \cup DOMAIN sector_domains[sec] |->
        IF d \in DOMAIN sector_domains[sec]
        THEN [i \in 1..Len(sector_domains[sec][d]) |->
                IF sec = nis2_sectors[1] THEN wdg[d][i] ELSE options[1]]
        ELSE scores[d]]

\* lines 88-98: st.session_state.scores[domain] = domain_scores, every domain
AssessmentScores(scores, sec, wdg) ==
    [d \in DOMAIN scores \cup DOMAIN sector_domains[sec] |->
        IF d \in DOMAIN sector_domains[sec]
        THEN domain_scores(sector_domains[sec][d], wdg[d])
        ELSE scores[d]]

\* line 109-113 and 116-120: the two figures
fig1(scores) == [title |-> "Maturity by Domain", data |-> domain_averages(scores)]

fig2(scores) == [title |-> "Heatmap of Scores", data |-> scores]

\* lines 165-166, recomputing from the scores instead of reading the table
report_lines_recomputed(ss) ==
    [i \in 1..Len(Keys(ss.scores)) |->
        [Domain |-> Keys(ss.scores)[i],
         Recommendation |-> recommendation(Mean(ss.scores[Keys(ss.scores)[i]])),
         Avg |-> Fmt2(Mean(ss.scores[Keys(ss.scores)[i]]))]]

\* lines 165-166: one line per row of st.session_state.recs_table
report_lines(ss) ==
    [i \in 1..Len(ss.recs_table) |->
        [Domain |-> ss.recs_table[i].Domain,
         Recommendation |-> ss.recs_table[i].Recommendation,
         Avg |-> Fmt2(ss.recs_table[i].Avg)]]

(***************************************************************************)
(* One execution of the script (lines 79-169) for session s, with the      *)
(* sidebar widgets at sec and sct, the rating selectboxes at wdg and the   *)
(* Generate Report button pressed or not.  Rating selectboxes exist only   *)
(* while the Assessment page renders them: on a run that does not, the     *)
(* widget store either keeps their values for the next rendering or drops  *)
(* them back to the default, depending on the Streamlit release.           *)
(***************************************************************************)
Script(s, sec, sct, wdg, click) ==
    LET ss == InitScores(session_state[s]) IN
    /\ sector' = [sector EXCEPT ![s] = sec]
    /\ section' = [section EXCEPT ![s] = sct]
    /\ UNCHANGED files
    /\ IF sct = "Assessment" THEN
            /\ widget' = [widget EXCEPT ![s] = wdg]
            /\ session_state' = Store(session_state, s,
                    SetKey(ss, "scores", AssessmentScores(ss.scores, sec, wdg)))
            /\ view' = [view EXCEPT ![s] = Screen(sct, "form")]
            /\ UNCHANGED <<pc, pdf>>
       ELSE IF sct = "Summary" THEN
            /\ \E keep \in BOOLEAN :
                    widget' = [widget EXCEPT ![s] = IF keep THEN wdg ELSE default_widget]
            /\ UNCHANGED <<pc, pdf>>
            /\ IF DivisionByZero(ss.scores) \/ avg_score(ss.scores).den = 0 THEN
                    \* line 102 or 104 raises before anything is shown or stored
                    /\ session_state' = Store(session_state, s, ss)
                    /\ view' = [view EXCEPT ![s] = Screen(sct, "ZeroDivisionError")]
               ELSE \E heatmap_ok \in (IF ss.scores = EmptyDict THEN BOOLEAN ELSE {TRUE}) :
                    IF heatmap_ok THEN
                        /\ session_state' = Store(session_state, s,
                                SetKey(SetKey(SetKey(ss,
                                    "fig_summary", fig1(ss.scores)),
                                    "fig_heatmap", fig2(ss.scores)),
                                    "recs_table", recs(domain_averages(ss.scores))))
                        /\ view' = [view EXCEPT ![s] =
                                [Screen(sct, "shown") EXCEPT
                                    !.metric = Fmt2(avg_score(ss.scores)),
                                    !.charts = <<fig1(ss.scores), fig2(ss.scores)>>,
                                    !.dataframe = recs(domain_averages(ss.scores))]]
                    ELSE
                        \* sns.heatmap of a frame with no cells raises in some
                        \* seaborn releases: the metric and the bar chart are on
                        \* screen, nothing is stored
                        /\ session_state' = Store(session_state, s, ss)
                        /\ view' = [view EXCEPT ![s] =
                                [Screen(sct, "ValueError") EXCEPT
                                    !.metric = Fmt2(avg_score(ss.scores)),
                                    !.charts = <<fig1(ss.scores)>>]]
       ELSE
            /\ \E keep \in BOOLEAN :
                    widget' = [widget EXCEPT ![s] = IF keep THEN wdg ELSE default_widget]
            /\ session_state' = Store(session_state, s, ss)
            /\ IF ~click THEN
                    /\ view' = [view EXCEPT ![s] = Screen(sct, "form")]
                    /\ UNCHANGED <<pc, pdf>>
               ELSE IF "fig_summary" \notin DOMAIN ss \/ "fig_heatmap" \notin DOMAIN ss THEN
                    \* line 152: st.session_state.fig_summary does not exist
                    /\ view' = [view EXCEPT ![s] = Screen(sct, "AttributeError")]
                    /\ UNCHANGED <<pc, pdf>>
               ELSE
                    \* lines 141-152: the run goes on in the chart loop
                    /\ view' = [view EXCEPT ![s] = Screen(sct, "running")]
                    /\ pc' = [pc EXCEPT ![s] = [at |-> "open", i |-> 1]]
                    /\ pdf' = [pdf EXCEPT ![s] = NewPdf]

Running(s) == pc[s] # Idle

(***************************************************************************)
(* The user events of a session.                                           *)
(***************************************************************************)
\* the browser connects: the first run, every widget at its default
Connect(s) ==
    /\ view[s] = NoScreen
    /\ "scores" \notin DOMAIN session_state[s]
    /\ Script(s, sector[s], section[s], widget[s], FALSE)
    /\ UNCHANGED nratings

Connected(s) == view[s] # NoScreen /\ ~Running(s)

\* line 79
SelectSector(s, sec) ==
    /\ Connected(s)
    /\ sec # sector[s]
    /\ Script(s, sec, section[s], widget[s], FALSE)
    /\ UNCHANGED nratings

\* line 80
SelectSection(s, sct) ==
    /\ Connected(s)
    /\ sct # section[s]
    /\ Script(s, sector[s], sct, widget[s], FALSE)
    /\ UNCHANGED nratings

\* line 96: the selectbox of criterion i of domain d is set to level
SelectLevel(s, d, i, level) ==
    /\ Connected(s)
    /\ section[s] = "Assessment"
    /\ level # widget[s][d][i]
    /\ nratings < MaxRatings
    /\ nratings' = nratings + 1
    /\ Script(s, sector[s], section[s], [widget[s] EXCEPT ![d][i] = level], FALSE)

\* lines 136-138: one of the report's text or date inputs is edited
EditReportInput(s) ==
    /\ Connected(s)
    /\ section[s] = "Download Report"
    /\ Script(s, sector[s], section[s], widget[s], FALSE)
    /\ UNCHANGED nratings

\* line 140
ClickGenerate(s) ==
    /\ Connected(s)
    /\ section[s] = "Download Report"
    /\ Script(s, sector[s], section[s], widget[s], TRUE)
    /\ UNCHANGED nratings

(***************************************************************************)
(* The rest of a report run (lines 152-169), one step per file operation.  *)
(***************************************************************************)
\* lines 153-157: the figure is rasterised and written to its file
WriteImage(s) ==
    /\ pc[s].at = "open"
    /\ files' = (chart_loop[pc[s].i].name :>
                    savefig(session_state[s][chart_loop[pc[s].i].fig])) @@ files
    /\ pc' = [pc EXCEPT ![s].at = "image"]
    /\ UNCHANGED <<sector, section, widget, session_state, pdf, view, nratings>>

\* lines 158-159: pdf.image(name) reads the file of that name
PdfImage(s) ==
    /\ pc[s].at = "image"
    /\ pdf' = [pdf EXCEPT ![s].images = Append(@, files[chart_loop[pc[s].i].name])]
    /\ pc' = [pc EXCEPT ![s] =
                IF pc[s].i < Len(chart_loop)
                THEN [at |-> "open", i |-> pc[s].i + 1]
                ELSE [at |-> "recs", i |-> 0]]
    /\ UNCHANGED <<sector, section, widget, session_state, view, files, nratings>>

\* lines 161-169: the recommendation lines, then the download button
FinishReport(s) ==
    /\ pc[s].at = "recs"
    /\ view' = [view EXCEPT ![s] =
                [Screen(section[s], "download") EXCEPT
                    !.download = [pdf[s] EXCEPT !.lines = report_lines(session_state[s])]]]
    /\ pc' = [pc EXCEPT ![s] = Idle]
    /\ pdf' = [pdf EXCEPT ![s] = NewPdf]
    /\ UNCHANGED <<sector, section, widget, session_state, files, nratings>>

(***************************************************************************)
(* Specifications.                                                         *)
(***************************************************************************)
Init ==
    /\ sector = [s \in Sessions |-> nis2_sectors[1]]
    /\ section = [s \in Sessions |-> sections[1]]
    /\ widget = [s \in Sessions |-> default_widget]
    /\ session_state = [s \in Sessions |-> <<>>]
    /\ pc = [s \in Sessions |-> Idle]
    /\ pdf = [s \in Sessions |-> NewPdf]
    /\ view = [s \in Sessions |-> NoScreen]
    /\ files = <<>>
    /\ nratings = 0

Event(s) ==
    \/ Connect(s)
    \/ \E sec \in SectorNames : SelectSector(s, sec)
    \/ \E i \in 1..Len(sections) : SelectSection(s, sections[i])
    \/ \E d \in DomainNames : \E i \in 1..Len(nis2_domains[d]) :
            \E k \in 1..Len(options) : SelectLevel(s, d, i, options[k])
    \/ EditReportInput(s)
    \/ ClickGenerate(s)
    \/ WriteImage(s)
    \/ PdfImage(s)
    \/ FinishReport(s)

\* one browser session
Next == Event("A")

Spec == Init /\ [][Next]_vars

\* two browser sessions on the same server
NextConc == \E s \in Sessions : Event(s)

SpecConc == Init /\ [][NextConc]_vars

(***************************************************************************)
(* The Summary and Download Report pages as functions of the scores they   *)
(* are given: session A starts with an arbitrary scores dict taken from    *)
(* ScoreInputs (no scores at all; or some of the domains, one of them with *)
(* any ratings and the others rated uniformly), and is then navigated.     *)
(***************************************************************************)
Levels == {options[k] : k \in 1..Len(options)}

ScoreInputs ==
    {EmptyDict} \cup
    UNION {{[d \in D |-> IF d = f THEN free ELSE [i \in 1..NumCriteria |-> l]] :
                free \in [1..NumCriteria -> Levels], l \in Levels, f \in D} :
           D \in (SUBSET DomainNames) \ {{}}}

InitFn ==
    /\ sector = [s \in Sessions |-> nis2_sectors[1]]
    /\ section = [s \in Sessions |-> sections[1]]
    /\ widget = [s \in Sessions |-> default_widget]
    /\ \E sc \in ScoreInputs :
            session_state = [s \in Sessions |->
                                IF s = "A" THEN SetKey(<<>>, "scores", sc) ELSE <<>>]
    /\ pc = [s \in Sessions |-> Idle]
    /\ pdf = [s \in Sessions |-> NewPdf]
    /\ view = [s \in Sessions |->
                IF s = "A" THEN Screen(sections[1], "form") ELSE NoScreen]
    /\ files = <<>>
    /\ nratings = 0

NextFn ==
    \/ \E i \in 1..Len(sections) : SelectSection("A", sections[i])
    \/ ClickGenerate("A")
    \/ WriteImage("A")
    \/ PdfImage("A")
    \/ FinishReport("A")

SpecFn == InitFn /\ [][NextFn]_vars

(***************************************************************************)
(* Properties.                                                             *)
(***************************************************************************)
HasScores(s) == "scores" \in DOMAIN session_state[s]

Scores(s) == session_state[s].scores

Shown(s) == view[s].page = "Summary" /\ view[s].result = "shown"

Downloaded(s) == view[s].page = "Download Report" /\ view[s].result = "download"

RowInBand(row) ==
    LET n == row.Avg.num
        k == row.Avg.den
        r == row.Recommendation
    IN  /\ n < 2 * k =>
            r = "High priority for corrective action. Establish basic controls."
        /\ (2 * k <= n /\ n < 3 * k) =>
            r = "Moderate risk. Document and formalize processes."
        /\ (3 * k <= n /\ n < 4 * k) =>
            r = "Develop structured monitoring and review."
        /\ (4 * k <= n /\ n < 5 * k) =>
            r = "Consider optimization and automation."
        /\ 5 * k <= n =>
            r = "Maintain and share best practices."

\* C1: every row of the recommendations table shown by Summary holds a domain
\* of the scores, that domain's average sum/len, and the text of the band the
\* average falls in, the boundaries 2, 3, 4 and 5 belonging to the higher band.
C1_RecommendationBands ==
    \A s \in Sessions : Shown(s) =>
        /\ Len(view[s].dataframe) = Cardinality(DOMAIN Scores(s))
        /\ \A i \in 1..Len(view[s].dataframe) :
            LET row == view[s].dataframe[i] IN
            /\ row.Domain \in DOMAIN Scores(s)
            /\ row.Avg.den = Len(Scores(s)[row.Domain])
            /\ row.Avg.num = sum(Scores(s)[row.Domain])
            /\ RowInBand(row)

\* a Summary whose table has one domain exactly at 2 and one exactly at 5
C1_Witness ==
    \E s \in Sessions : Shown(s) /\
        \E i, j \in 1..Len(view[s].dataframe) :
            /\ view[s].dataframe[i].Avg.num = 2 * view[s].dataframe[i].Avg.den
            /\ view[s].dataframe[i].Recommendation =
                    "Moderate risk. Document and formalize processes."
            /\ view[s].dataframe[j].Avg.num = 5 * view[s].dataframe[j].Avg.den
            /\ view[s].dataframe[j].Recommendation =
                    "Maintain and share best practices."

C3_GenerateWithoutSummary ==
    \A s \in Sessions :
        (/\ view[s].page = "Download Report"
         /\ view[s].result # "form"
         /\ "recs_table" \notin DOMAIN session_state[s])
        => view[s].result \in {"no data", "complete the assessment first"}

C5_ReportRoundTrip ==
    \A s \in Sessions :
        /\ Shown(s) => view[s].dataframe = session_state[s].recs_table
        /\ Downloaded(s) =>
            /\ Len(view[s].download.lines) = Len(session_state[s].recs_table)
            /\ \A i \in 1..Len(view[s].download.lines) :
                LET line == view[s].download.lines[i]
                    row == session_state[s].recs_table[i]
                    err == 100 * row.Avg.num - line.Avg * row.Avg.den
                IN  /\ line.Domain = row.Domain
                    /\ line.Recommendation = row.Recommendation
                    /\ 2 * err <= row.Avg.den
                    /\ -2 * err <= row.Avg.den

\* a report generated from a Summary that was taken before the rating of 5:
\* its lines show 0.00 while a domain now averages above 0
C5_Witness ==
    \E s \in Sessions : Downloaded(s) /\
        /\ Len(view[s].download.lines) = NumDomains
        /\ \A i \in 1..Len(view[s].download.lines) : view[s].download.lines[i].Avg = 0
        /\ \E d \in DOMAIN Scores(s) : sum(Scores(s)[d]) = 5

RECURSIVE TotalSum(_, _)
TotalSum(scores, D) ==
    IF D = {} THEN 0
    ELSE LET d == CHOOSE x \in D : TRUE
         IN  sum(scores[d]) + TotalSum(scores, D \ {d})

RECURSIVE TotalCount(_, _)
TotalCount(scores, D) ==
    IF D = {} THEN 0
    ELSE LET d == CHOOSE x \in D : TRUE
         IN  Len(scores[d]) + TotalCount(scores, D \ {d})

\* C6: Summary never fails on the overall average: when no domain has an
\* empty sequence the run does not end in a division by zero, and the metric
\* it shows is 0.00 when there is no score at all and otherwise the sum of all
\* scores of all domains over their number, rounded to the nearest hundredth.
C6_OverallAverage ==
    \A s \in Sessions :
        (view[s].page = "Summary" /\ ~DivisionByZero(Scores(s))) =>
            LET total == TotalSum(Scores(s), DOMAIN Scores(s))
                count == TotalCount(Scores(s), DOMAIN Scores(s))
                err == 100 * total - view[s].metric * count
            IN  /\ view[s].result # "ZeroDivisionError"
                /\ view[s].metric >= 0
                /\ count = 0 => view[s].metric = 0
                /\ count > 0 => (2 * err <= count /\ -2 * err <= count)

\* Summary run on a session with no scores at all shows 0.00
C6_Witness ==
    \E s \in Sessions :
        /\ view[s].page = "Summary"
        /\ HasScores(s) /\ Scores(s) = EmptyDict
        /\ view[s].metric = 0

\* C7: an event of one session leaves the st.session_state of every other
\* session (scores, stored figures, stored recommendations table) unchanged.
C7_SessionIsolation ==
    [][\A s \in Sessions : \A t \in Sessions \ {s} :
            session_state'[t] = session_state[t] \/ ~Event(s)]_vars

\* two sessions that both hold a stored Summary, over different scores
C7_Witness ==
    /\ \A s \in Sessions : "recs_table" \in DOMAIN session_state[s]
    /\ session_state["A"].scores # session_state["B"].scores
    /\ session_state["A"].recs_table # session_state["B"].recs_table

\* C8: the two images of a generated report are the session's own stored
\* figures, rasterised.
C8_OwnImages ==
    \A s \in Sessions : Downloaded(s) =>
        view[s].download.images =
            <<savefig(session_state[s].fig_summary),
              savefig(session_state[s].fig_heatmap)>>

\* C9: a generated report shows the scores as they are when it is generated:
\* each line the average of the domain's current scores, the images the
\* charts of the current scores.
C9_ReportIsCurrent ==
    \A s \in Sessions : Downloaded(s) =>
        /\ Len(view[s].download.lines) = Cardinality(DOMAIN Scores(s))
        /\ \A i \in 1..Len(view[s].download.lines) :
            LET line == view[s].download.lines[i] IN
            /\ line.Domain \in DOMAIN Scores(s)
            /\ line.Avg = Fmt2(Mean(Scores(s)[line.Domain]))
        /\ view[s].download.images =
                <<savefig(fig1(Scores(s))), savefig(fig2(Scores(s)))>>

=============================================================================
